---- MODULE Spec2Model ----
(***************************************************************************)
(* Model of the farm-gate entry/exit and sanitization firmware             *)
(* (src/Dashboard/src/pages/Animals.tsx, lines 896-1456) and of the radio  *)
(* send loop of the wearable tag firmware (src/IOT/BOM/install.sh, lines   *)
(* 311-564).                                                               *)
(*                                                                         *)
(* One action is one execution of loop(): the call of checkMoistureLevels  *)
(* followed by the switch on currentState.  The functions of the firmware  *)
(* are operators that take the program state as a record and return the    *)
(* record after the call, so that the order of the calls in the source is  *)
(* the order of composition here.  Sensor readings, file-open results and  *)
(* modem responses are inputs drawn from the sets of an environment        *)
(* record.                                                                 *)
(***************************************************************************)
EXTENDS Integers, Sequences, FiniteSets, TLC

VARIABLES
    currentState,        \* SystemState currentState
    stateStartTime,      \* unsigned long stateStartTime
    lastPresenceCheck,   \* unsigned long lastPresenceCheck
    lastMoistureCheck,   \* unsigned long lastMoistureCheck
    lastMoistureAlert,   \* unsigned long lastMoistureAlert
    lowWaterAlertSent,   \* bool lowWaterAlertSent
    tankRefillNeeded,    \* bool tankRefillNeeded
    relay,               \* level of RELAY_PIN
    inside,              \* lines of /inside.txt (the occupancy ledger)
    log,                 \* lines of /events.csv (the event journal)
    clock,               \* millis()
    air,                 \* radio messages handed to the modem in the last loop()
    trace,               \* storage, radio and relay operations of the last loop(), in order
    scan,                \* the scan resolved by the last loop(), or NoScan
    period,              \* the reservoir monitoring period run by the last loop(), or NoPeriod
    lastEvent,           \* per identity: the last resolved event
    prevEvent,           \* per identity: the resolved event before the last one
    everAlerted,         \* a WATER_ALERT has been raised since boot
    clearedSinceAlert,   \* the alert flag was reset since the last WATER_ALERT
    history,             \* per monitoring period: percentage, alert raised, alert cleared
    cycle,               \* the sanitization cycle run by the last loop(), or NoCycle
    resolved,            \* the action of the last resolved scan of any identity
    boot,                \* what the restart interrupted, in the state after a restart, or NoBoot
    boots,               \* number of restarts
    entryTime,           \* millis() when the steps of the resolved ENTRY were done, until its cycle has run
    lastDistance,        \* the distance read by the presence poll of the last loop(), or NoDistance
    attempts,            \* tag firmware: int attempts
    sent,                \* tag firmware: bool sent
    pc,                  \* tag firmware: position in loop()
    resps,               \* responses the modem gave to the transmissions of the current send
    tx,                  \* number of AT+PSEND commands issued by the current send
    backoff,             \* delays (ms) made after the failed attempts of the current send
    jsonPayload,         \* tag firmware: String jsonPayload, as bytes
    hexPayload,          \* tag firmware: String hexPayload, as characters
    pending              \* loop() run without end: the inputs the next loop() reads, or NoInputs

gateVars == <<currentState, stateStartTime, lastPresenceCheck, lastMoistureCheck,
              lastMoistureAlert, lowWaterAlertSent, tankRefillNeeded, relay, inside,
              log, clock, air, trace, scan, period, lastEvent, prevEvent,
              everAlerted, clearedSinceAlert, history, cycle, resolved, boot, boots,
              entryTime, lastDistance>>
tagVars == <<attempts, sent, pc, resps, tx, backoff, jsonPayload, hexPayload>>
vars == <<gateVars, tagVars, pending>>

----------------------------------------------------------------------------
(* Program constants *)

PRESENCE_DISTANCE_CM == 120
MOISTURE_LOW_THRESHOLD == 1000
MOISTURE_HIGH_THRESHOLD == 3000
MOISTURE_CHECK_INTERVAL == 30000
MOISTURE_ALERT_INTERVAL == 300000
SANITIZE_DELAY_MS == 5000
SANITIZE_DURATION_MS == 10000
RFID_WAIT_AFTER_PRESENCE_MS == 10000
PRESENCE_POLL_MS == 200
NO_ECHO_CM == 10000
CLEAR_PERCENT == 40
STATUS_OK_PERCENT == 30
maxRetries == 4
LORA_CMD_RESP_TIMEOUT == 1000
RetryPause == 50
BackoffStep == 50
SANITIZE_WAIT_MS == 50

(* Bounds of the model *)

MaxClock == 40000
MaxClockReservoir == 345000
MaxLog == 3
MaxLogReservoir == 2
MaxHistory == 5
MaxClockSanitize == 40000
MaxLogSanitize == 3
MaxClockRestart == 50000
MaxLogRestart == 4
MaxBoots == 1
MaxPayload == 2
MaxClockPresence == 40000
MaxLogPresence == 3
MaxClockLedger == 75000
MaxLogLedger == 3

NoScan == [uid |-> "", action |-> "NONE"]
NoPeriod == [ran |-> FALSE]
NoCycle == [ran |-> FALSE]
NoBoot == [kind |-> "none"]
NoInputs == [set |-> FALSE]
NoDistance == 0 - 1

Uids == {"AB12", "CD34"}

----------------------------------------------------------------------------
(* Helpers *)

Min(a, b) == IF a < b THEN a ELSE b

\* C integer division truncates toward zero
TruncDiv(a, b) == IF a >= 0 THEN a \div b ELSE -((-a) \div b)

\* Arduino map(): (x - in_min) * (out_max - out_min) / (in_max - in_min) + out_min
Map(x, in_min, in_max, out_min, out_max) ==
    TruncDiv((x - in_min) * (out_max - out_min), in_max - in_min) + out_min

\* Arduino constrain()
Constrain(x, lo, hi) == IF x < lo THEN lo ELSE IF x > hi THEN hi ELSE x

\* String::indexOf(tok) >= 0 on the responses the modem is modelled to give
Contains(resp, tok) ==
    <<resp, tok>> \in { <<"OK", "OK">>,
                        <<"SEND_CONFIRMED_OK", "OK">>,
                        <<"SEND_CONFIRMED_OK", "SEND_CONFIRMED_OK">>,
                        <<"+EVT:TXP2P DONE", "+EVT:TXP2P DONE">>,
                        <<"AT_BUSY_ERROR", "AT_BUSY_ERROR">>,
                        <<"AT_BUSY_ERROR", "BUSY">> }

SeqFilterOut(v, uid) == SelectSeq(v, LAMBDA s : s # uid)

InSeq(v, x) == \E i \in 1..Len(v) : v[i] = x

----------------------------------------------------------------------------
(* The hexadecimal transmission encoding *)

HexDigits == <<"0", "1", "2", "3", "4", "5", "6", "7",
               "8", "9", "A", "B", "C", "D", "E", "F">>

\* the digits printf gives for %X: base 16, upper case, no leading zeros
HexOf(v) ==
    IF v < 16 THEN <<HexDigits[v + 1]>>
    ELSE <<HexDigits[(v \div 16) + 1], HexDigits[(v % 16) + 1]>>

\* a variant of the format without the padding: sprintf(buf, "%X", v)
FormatX(v) == HexOf(v)

\* sprintf(buf, "%02X", v): the digits padded with zeros to two characters
Format02X(v) == IF Len(HexOf(v)) < 2 THEN <<"0">> \o HexOf(v) ELSE HexOf(v)

\* the cast (uint8_t)s[i] of a character
Uint8(c) == c % 256

\* toHex: the two digits of every character of s, appended in order
RECURSIVE ToHex(_)
ToHex(s) ==
    IF s = <<>> THEN <<>>
    ELSE Format02X(Uint8(Head(s))) \o ToHex(Tail(s))

\* the value of a hexadecimal digit
HexValue(d) == CHOOSE n \in 0..15 : HexDigits[n + 1] = d

\* the receiver's decoding: every pair of digits gives one byte
FromHex(h) ==
    [i \in 1..(Len(h) \div 2) |-> 16 * HexValue(h[2 * i - 1]) + HexValue(h[2 * i])]

\* the characters the payloads are made of: bytes under and from 0x10, bytes
\* from 0x80 (a String holds no NUL)
PayloadBytes == {15, 16, 128, 255}

RECURSIVE PayloadsOfLen(_)
PayloadsOfLen(n) ==
    IF n = 0 THEN {<<>>}
    ELSE {Append(q, b) : q \in PayloadsOfLen(n - 1), b \in PayloadBytes}

Payloads == UNION {PayloadsOfLen(n) : n \in 0..MaxPayload}

----------------------------------------------------------------------------
(* The program state as a record, threaded through the calls of one loop() *)

Cur == [currentState |-> currentState, stateStartTime |-> stateStartTime,
        lastPresenceCheck |-> lastPresenceCheck,
        lastMoistureCheck |-> lastMoistureCheck,
        lastMoistureAlert |-> lastMoistureAlert,
        lowWaterAlertSent |-> lowWaterAlertSent,
        tankRefillNeeded |-> tankRefillNeeded, relay |-> relay,
        inside |-> inside, log |-> log,
        air |-> <<>>, trace |-> <<>>, scan |-> NoScan, period |-> NoPeriod,
        cycle |-> NoCycle, ret |-> FALSE, busy |-> 0, distance |-> NoDistance]

\* one operation of the trace: op is "ledger", "journal", "radio" or "relay",
\* what is the identity, the journal action or the message type, ok its result
Ev(op, what, ok) == [op |-> op, what |-> what, ok |-> ok]

----------------------------------------------------------------------------
(* SPIFFS functions.  rdOk, apOk, wrOk, ok: whether SPIFFS.open gives a file *)

\* readInsideList: the lines of /inside.txt, or nothing when it cannot be opened
ReadInsideList(s, rdOk) == IF rdOk THEN s.inside ELSE <<>>

UidInList(s, uid, rdOk) == InSeq(ReadInsideList(s, rdOk), uid)

AddUidToInside(s, uid, rdOk, apOk) ==
    IF UidInList(s, uid, rdOk)
    THEN [s EXCEPT !.ret = FALSE, !.trace = Append(@, Ev("ledger", uid, FALSE))]
    ELSE IF ~apOk
    THEN [s EXCEPT !.ret = FALSE, !.trace = Append(@, Ev("ledger", uid, FALSE))]
    ELSE [s EXCEPT !.inside = Append(@, uid), !.ret = TRUE,
                   !.trace = Append(@, Ev("ledger", uid, TRUE))]

RemoveUidFromInside(s, uid, rdOk, wrOk) ==
    LET v == ReadInsideList(s, rdOk)
        found == InSeq(v, uid)
        newv == SeqFilterOut(v, uid)
    IN  IF ~wrOk
        THEN [s EXCEPT !.ret = found, !.trace = Append(@, Ev("ledger", uid, FALSE))]
        ELSE [s EXCEPT !.inside = newv, !.ret = found,
                       !.trace = Append(@, Ev("ledger", uid, TRUE))]

\* appendLog: one line "timestamp,uid,action[,extra]"; the timestamp is left out,
\* extra is <<>> for the empty string and <<percent>> for String(percent)
LogLine(uid, action, extra) == [uid |-> uid, action |-> action, extra |-> extra]

AppendLog(s, uid, action, extra, ok) ==
    IF ~ok
    THEN [s EXCEPT !.ret = FALSE, !.trace = Append(@, Ev("journal", action, FALSE))]
    ELSE [s EXCEPT !.log = Append(@, LogLine(uid, action, extra)), !.ret = TRUE,
                   !.trace = Append(@, Ev("journal", action, TRUE))]

----------------------------------------------------------------------------
(* Sensor functions *)

\* readUltrasonicCM: duration is the echo pulse in microseconds, 0 on timeout
ReadUltrasonicCM(duration) ==
    IF duration = 0 THEN NO_ECHO_CM ELSE (duration \div 29) \div 2

GetMoisturePercentage(raw) ==
    Constrain(Map(raw, MOISTURE_LOW_THRESHOLD, MOISTURE_HIGH_THRESHOLD, 0, 100), 0, 100)

IsWaterTankLow(raw) == raw < MOISTURE_LOW_THRESHOLD

----------------------------------------------------------------------------
(* LoRa functions *)

\* the JSON document of loraSendData (timestamp left out)
Doc(messageType, data) ==
    IF messageType \in {"ENTRY", "EXIT"}
    THEN [type |-> messageType, device_id |-> "FARM_GATE_01",
          rfid_uid |-> data[1], action |-> data[2]]
    ELSE IF messageType = "WATER_ALERT"
    THEN [type |-> messageType, device_id |-> "FARM_GATE_01",
          moisture_level |-> data, alert |-> "LOW_WATER_TANK"]
    ELSE IF messageType = "MOISTURE_STATUS"
    THEN [type |-> messageType, device_id |-> "FARM_GATE_01",
          moisture_level |-> data,
          tank_status |-> IF data > STATUS_OK_PERCENT THEN "OK" ELSE "LOW"]
    ELSE [type |-> messageType, device_id |-> "FARM_GATE_01"]

\* the success test of loraSendData on the modem's response
GateSendSuccess(resp) == Contains(resp, "OK") \/ Contains(resp, "+EVT:TXP2P DONE")

\* rakReadResponse: the time it takes to return resp.  A response line ends
\* the wait (taken as at once); with no response the whole window passes
ResponseWait(resp) == IF resp = "" THEN LORA_CMD_RESP_TIMEOUT ELSE 0

\* a variant of loraSendData that transmits the message again after a failed response
LoraSendDataResend(s, messageType, data, resp) ==
    IF GateSendSuccess(resp)
    THEN [s EXCEPT !.air = Append(@, Doc(messageType, data)),
                   !.ret = TRUE,
                   !.trace = Append(@, Ev("radio", messageType, TRUE))]
    ELSE [s EXCEPT !.air = @ \o <<Doc(messageType, data), Doc(messageType, data)>>,
                   !.ret = FALSE,
                   !.busy = @ + ResponseWait(resp) + ResponseWait(resp),
                   !.trace = @ \o <<Ev("radio", messageType, FALSE),
                                    Ev("radio", messageType, FALSE)>>]

\* loraSendData: one AT+PSEND, one response window, no retry
LoraSendData(s, messageType, data, resp) ==
    [s EXCEPT !.air = Append(@, Doc(messageType, data)),
              !.ret = GateSendSuccess(resp),
              !.busy = @ + ResponseWait(resp),
              !.trace = Append(@, Ev("radio", messageType, GateSendSuccess(resp)))]

----------------------------------------------------------------------------
(* System functions *)

\* the wait loop of doSanitizeCycle, entered with millis() = startTime: a pass
\* is made while millis() - startTime < SANITIZE_DURATION_MS, every pass takes
\* delay(50), and the level is read in the passes that find millis() on a full
\* second.  t: millis() when the loop is left, samples: the readings taken
SanitizeWait(startTime) ==
    LET passes == (SANITIZE_DURATION_MS + SANITIZE_WAIT_MS - 1) \div SANITIZE_WAIT_MS
    IN  [t |-> startTime + passes * SANITIZE_WAIT_MS,
         samples |-> Cardinality({k \in 0..(passes - 1) :
                                    (startTime + k * SANITIZE_WAIT_MS) % 1000 = 0})]

\* what one sanitization cycle did (for the properties): state: the gate state
\* when the relay was switched on, low, midLow: whether
\* the readings before and inside the cycle were under the threshold, onAt,
\* offAt: millis() when the relay was switched, samples: readings taken in
\* between, percent: the percentage of the journal line
CycleOf(state, low, midLow, onAt, offAt, samples, percent) ==
    [ran |-> TRUE, state |-> state, low |-> low, midLow |-> midLow, onAt |-> onAt, offAt |-> offAt,
     samples |-> samples, percent |-> percent]

\* a variant of doSanitizeCycle that does not run the pump on a low reservoir
DoSanitizeCycleSkipWhenLow(s, now, z) ==
    LET low == IsWaterTankLow(z.low)
        s1 == IF low THEN [s EXCEPT !.tankRefillNeeded = TRUE] ELSE s
        s2 == [s1 EXCEPT !.relay = TRUE, !.trace = Append(@, Ev("relay", "ON", TRUE))]
        startTime == now + s2.busy
        w == IF low THEN [t |-> startTime, samples |-> 0]
             ELSE SanitizeWait(startTime)
        s3 == [s2 EXCEPT !.busy = @ + (w.t - startTime)]
        s4 == [s3 EXCEPT !.relay = FALSE, !.trace = Append(@, Ev("relay", "OFF", TRUE))]
        s5 == AppendLog(s4, "SYSTEM", "SANITIZE_COMPLETE", <<GetMoisturePercentage(z.end)>>, z.ok)
    IN  [s5 EXCEPT !.cycle = CycleOf(s2.currentState, low, w.samples > 0 /\ IsWaterTankLow(z.mid),
                                     startTime, w.t, w.samples,
                                     GetMoisturePercentage(z.end))]

\* a variant of doSanitizeCycle that does not switch the pump off
DoSanitizeCycleLeavesOn(s, now, z) ==
    LET low == IsWaterTankLow(z.low)
        s1 == IF low THEN [s EXCEPT !.tankRefillNeeded = TRUE] ELSE s
        s2 == [s1 EXCEPT !.relay = TRUE, !.trace = Append(@, Ev("relay", "ON", TRUE))]
        startTime == now + s2.busy
        w == SanitizeWait(startTime)
        s3 == [s2 EXCEPT !.busy = @ + (w.t - startTime)]
        s5 == AppendLog(s3, "SYSTEM", "SANITIZE_COMPLETE", <<GetMoisturePercentage(z.end)>>, z.ok)
    IN  [s5 EXCEPT !.cycle = CycleOf(s2.currentState, low, w.samples > 0 /\ IsWaterTankLow(z.mid),
                                     startTime, w.t, w.samples,
                                     GetMoisturePercentage(z.end))]

\* doSanitizeCycle.  now: millis() at the top of loop(), z.low: the reading of
\* isWaterTankLow before the cycle, z.mid: the readings inside the wait loop
\* (they are only printed), z.end: the reading of getMoisturePercentage for the
\* journal line, z.ok: whether appendLog can open the journal
DoSanitizeCycle(s, now, z) ==
    LET low == IsWaterTankLow(z.low)
        s1 == IF low THEN [s EXCEPT !.tankRefillNeeded = TRUE] ELSE s
        s2 == [s1 EXCEPT !.relay = TRUE, !.trace = Append(@, Ev("relay", "ON", TRUE))]
        startTime == now + s2.busy
        w == SanitizeWait(startTime)
        s3 == [s2 EXCEPT !.busy = @ + (w.t - startTime)]
        s4 == [s3 EXCEPT !.relay = FALSE, !.trace = Append(@, Ev("relay", "OFF", TRUE))]
        s5 == AppendLog(s4, "SYSTEM", "SANITIZE_COMPLETE", <<GetMoisturePercentage(z.end)>>, z.ok)
    IN  [s5 EXCEPT !.cycle = CycleOf(s2.currentState, low, w.samples > 0 /\ IsWaterTankLow(z.mid),
                                     startTime, w.t, w.samples,
                                     GetMoisturePercentage(z.end))]

\* what one monitoring period did (for the properties)
PeriodOf(percent, low, alerted, cleared) ==
    [ran |-> TRUE, percent |-> percent, low |-> low,
     alerted |-> alerted, cleared |-> cleared]

\* a variant of checkMoistureLevels that alerts in every period with a low reading
CheckMoistureLevelsNoFlag(s, now, m) ==
    IF now - s.lastMoistureCheck >= MOISTURE_CHECK_INTERVAL
    THEN LET moisturePercent == GetMoisturePercentage(m.m1)
             low == IsWaterTankLow(m.m3)
             elapsed == now - s.lastMoistureAlert
             s1 == [s EXCEPT !.lastMoistureCheck = now]
             s2 == LoraSendData(s1, "MOISTURE_STATUS", moisturePercent, m.r1)
         IN  IF low
             THEN IF TRUE
                  THEN LET s3 == LoraSendData(s2, "WATER_ALERT", moisturePercent, m.r2)
                           s4 == [s3 EXCEPT !.lowWaterAlertSent = TRUE,
                                            !.lastMoistureAlert = now,
                                            !.tankRefillNeeded = TRUE]
                           s5 == AppendLog(s4, "SYSTEM", "LOW_WATER_ALERT",
                                           <<moisturePercent>>, m.ok)
                       IN  [s5 EXCEPT !.period =
                               PeriodOf(moisturePercent, low, TRUE, FALSE)]
                  ELSE [s2 EXCEPT !.period =
                               PeriodOf(moisturePercent, low, FALSE, FALSE)]
             ELSE IF s2.lowWaterAlertSent /\ moisturePercent > CLEAR_PERCENT
                  THEN LET s3 == [s2 EXCEPT !.lowWaterAlertSent = FALSE,
                                            !.tankRefillNeeded = FALSE]
                           s4 == AppendLog(s3, "SYSTEM", "WATER_LEVEL_NORMAL",
                                           <<moisturePercent>>, m.ok)
                       IN  [s4 EXCEPT !.period =
                               PeriodOf(moisturePercent, low, FALSE, TRUE)]
                  ELSE [s2 EXCEPT !.period =
                               PeriodOf(moisturePercent, low, FALSE, FALSE)]
    ELSE s

\* a variant of checkMoistureLevels that logs the return to normal without
\* looking at the alert flag
CheckMoistureLevelsNormalUnflagged(s, now, m) ==
    IF now - s.lastMoistureCheck >= MOISTURE_CHECK_INTERVAL
    THEN LET moisturePercent == GetMoisturePercentage(m.m1)
             low == IsWaterTankLow(m.m3)
             elapsed == now - s.lastMoistureAlert
             s1 == [s EXCEPT !.lastMoistureCheck = now]
             s2 == LoraSendData(s1, "MOISTURE_STATUS", moisturePercent, m.r1)
         IN  IF low
             THEN IF ~s2.lowWaterAlertSent \/ elapsed >= MOISTURE_ALERT_INTERVAL
                  THEN LET s3 == LoraSendData(s2, "WATER_ALERT", moisturePercent, m.r2)
                           s4 == [s3 EXCEPT !.lowWaterAlertSent = TRUE,
                                            !.lastMoistureAlert = now,
                                            !.tankRefillNeeded = TRUE]
                           s5 == AppendLog(s4, "SYSTEM", "LOW_WATER_ALERT",
                                           <<moisturePercent>>, m.ok)
                       IN  [s5 EXCEPT !.period =
                               PeriodOf(moisturePercent, low, TRUE, FALSE)]
                  ELSE [s2 EXCEPT !.period =
                               PeriodOf(moisturePercent, low, FALSE, FALSE)]
             ELSE IF moisturePercent > CLEAR_PERCENT
                  THEN LET s3 == [s2 EXCEPT !.lowWaterAlertSent = FALSE,
                                            !.tankRefillNeeded = FALSE]
                           s4 == AppendLog(s3, "SYSTEM", "WATER_LEVEL_NORMAL",
                                           <<moisturePercent>>, m.ok)
                       IN  [s4 EXCEPT !.period =
                               PeriodOf(moisturePercent, low, FALSE, TRUE)]
                  ELSE [s2 EXCEPT !.period =
                               PeriodOf(moisturePercent, low, FALSE, FALSE)]
    ELSE s

\* checkMoistureLevels.  m.m1, m.m3: the sensor readings of getMoisturePercentage
\* and of isWaterTankLow, m.r1, m.r2: the modem's responses to the status and
\* the alert, m.ok: whether appendLog can open the journal
CheckMoistureLevels(s, now, m) ==
    IF now - s.lastMoistureCheck >= MOISTURE_CHECK_INTERVAL
    THEN LET moisturePercent == GetMoisturePercentage(m.m1)
             low == IsWaterTankLow(m.m3)
             elapsed == now - s.lastMoistureAlert
             s1 == [s EXCEPT !.lastMoistureCheck = now]
             s2 == LoraSendData(s1, "MOISTURE_STATUS", moisturePercent, m.r1)
         IN  IF low
             THEN IF ~s2.lowWaterAlertSent \/ elapsed >= MOISTURE_ALERT_INTERVAL
                  THEN LET s3 == LoraSendData(s2, "WATER_ALERT", moisturePercent, m.r2)
                           s4 == [s3 EXCEPT !.lowWaterAlertSent = TRUE,
                                            !.lastMoistureAlert = now,
                                            !.tankRefillNeeded = TRUE]
                           s5 == AppendLog(s4, "SYSTEM", "LOW_WATER_ALERT",
                                           <<moisturePercent>>, m.ok)
                       IN  [s5 EXCEPT !.period =
                               PeriodOf(moisturePercent, low, TRUE, FALSE)]
                  ELSE [s2 EXCEPT !.period =
                               PeriodOf(moisturePercent, low, FALSE, FALSE)]
             ELSE IF s2.lowWaterAlertSent /\ moisturePercent > CLEAR_PERCENT
                  THEN LET s3 == [s2 EXCEPT !.lowWaterAlertSent = FALSE,
                                            !.tankRefillNeeded = FALSE]
                           s4 == AppendLog(s3, "SYSTEM", "WATER_LEVEL_NORMAL",
                                           <<moisturePercent>>, m.ok)
                       IN  [s4 EXCEPT !.period =
                               PeriodOf(moisturePercent, low, FALSE, TRUE)]
                  ELSE [s2 EXCEPT !.period =
                               PeriodOf(moisturePercent, low, FALSE, FALSE)]
    ELSE s

----------------------------------------------------------------------------
(* loop(): the cases of the switch on currentState *)

\* case IDLE.  duration: the echo pulse of this poll
CaseIdle(s, now, duration) ==
    IF now - s.lastPresenceCheck >= PRESENCE_POLL_MS
    THEN LET distance == ReadUltrasonicCM(duration)
             s1 == [s EXCEPT !.lastPresenceCheck = now, !.distance = distance]
         IN  IF distance > 0 /\ distance <= PRESENCE_DISTANCE_CM
             THEN [s1 EXCEPT !.currentState = "WAITING_FOR_RFID", !.stateStartTime = now]
             ELSE s1
    ELSE s

\* a variant of the ENTRY branch that journals and sends before it writes the ledger
EntryBranchLedgerLast(s, now, uid, f, resp) ==
    LET s1 == AppendLog(s, uid, "ENTER", <<>>, f.log)
        s2 == LoraSendData(s1, "ENTRY", <<uid, "ENTER">>, resp)
        s3 == AddUidToInside(s2, uid, f.rd2, f.wr)
    IN  [s3 EXCEPT !.currentState = "PROCESSING_ENTRY", !.stateStartTime = now,
                   !.scan = [uid |-> uid, action |-> "ENTER"]]

\* a variant of the ENTRY branch that takes the entry back when the send fails
EntryBranchRollback(s, now, uid, f, resp) ==
    LET s1 == AddUidToInside(s, uid, f.rd2, f.wr)
        s2 == AppendLog(s1, uid, "ENTER", <<>>, f.log)
        s3 == LoraSendData(s2, "ENTRY", <<uid, "ENTER">>, resp)
    IN  IF s3.ret
        THEN [s3 EXCEPT !.currentState = "PROCESSING_ENTRY", !.stateStartTime = now,
                        !.scan = [uid |-> uid, action |-> "ENTER"]]
        ELSE [s3 EXCEPT !.inside = s.inside, !.currentState = "IDLE",
                        !.scan = [uid |-> uid, action |-> "ENTER"]]

\* the ENTRY branch of case WAITING_FOR_RFID
EntryBranch(s, now, uid, f, resp) ==
    LET s1 == AddUidToInside(s, uid, f.rd2, f.wr)
        s2 == AppendLog(s1, uid, "ENTER", <<>>, f.log)
        s3 == LoraSendData(s2, "ENTRY", <<uid, "ENTER">>, resp)
    IN  [s3 EXCEPT !.currentState = "PROCESSING_ENTRY", !.stateStartTime = now,
                   !.scan = [uid |-> uid, action |-> "ENTER"]]

\* a variant of the EXIT branch that schedules a sanitization cycle like an entry
ExitBranchSanitize(s, now, uid, f, resp) ==
    LET s1 == RemoveUidFromInside(s, uid, f.rd2, f.wr)
        s2 == AppendLog(s1, uid, "EXIT", <<>>, f.log)
        s3 == LoraSendData(s2, "EXIT", <<uid, "EXIT">>, resp)
    IN  [s3 EXCEPT !.currentState = "PROCESSING_ENTRY", !.stateStartTime = now,
                   !.scan = [uid |-> uid, action |-> "EXIT"]]

\* the EXIT branch of case WAITING_FOR_RFID
ExitBranch(s, now, uid, f, resp) ==
    LET s1 == RemoveUidFromInside(s, uid, f.rd2, f.wr)
        s2 == AppendLog(s1, uid, "EXIT", <<>>, f.log)
        s3 == LoraSendData(s2, "EXIT", <<uid, "EXIT">>, resp)
    IN  [s3 EXCEPT !.currentState = "IDLE", !.busy = @ + 1000,
                   !.scan = [uid |-> uid, action |-> "EXIT"]]

\* a variant of case WAITING_FOR_RFID that journals the abandoned scan
CaseWaitingForRfidLogsTimeout(s, now, uid, f, resp) ==
    IF uid # ""
    THEN IF ~UidInList(s, uid, f.rd1)
         THEN EntryBranch(s, now, uid, f, resp)
         ELSE ExitBranch(s, now, uid, f, resp)
    ELSE IF now - s.stateStartTime >= RFID_WAIT_AFTER_PRESENCE_MS
         THEN AppendLog([s EXCEPT !.currentState = "IDLE"], "SYSTEM", "EXIT", <<>>, TRUE)
         ELSE s

\* a variant of case WAITING_FOR_RFID without the timeout of the wait window
CaseWaitingForRfidNoTimeout(s, now, uid, f, resp) ==
    IF uid # ""
    THEN IF ~UidInList(s, uid, f.rd1)
         THEN EntryBranch(s, now, uid, f, resp)
         ELSE ExitBranch(s, now, uid, f, resp)
    ELSE s

\* case WAITING_FOR_RFID.  uid: what waitForRFID(100) returns ("" for no tag),
\* f.rd1, f.rd2, f.wr, f.log: whether the opens of the ledger (read by
\* uidInList, read by the mutation, write by the mutation) and of the journal
\* give a file, resp: the modem's response
CaseWaitingForRfid(s, now, uid, f, resp) ==
    IF uid # ""
    THEN IF ~UidInList(s, uid, f.rd1)
         THEN EntryBranch(s, now, uid, f, resp)
         ELSE ExitBranch(s, now, uid, f, resp)
    ELSE IF now - s.stateStartTime >= RFID_WAIT_AFTER_PRESENCE_MS
         THEN [s EXCEPT !.currentState = "IDLE"]
         ELSE s

\* a variant of case PROCESSING_ENTRY that starts the cycle without the entry delay
CaseProcessingEntryNoDelay(s, now, z) ==
    DoSanitizeCycle([s EXCEPT !.currentState = "SANITIZING", !.stateStartTime = now], now, z)

\* case PROCESSING_ENTRY
CaseProcessingEntry(s, now, z) ==
    IF now - s.stateStartTime >= SANITIZE_DELAY_MS
    THEN DoSanitizeCycle([s EXCEPT !.currentState = "SANITIZING", !.stateStartTime = now],
                         now, z)
    ELSE s

\* a variant of case SANITIZING that goes on to wait for the next tag
CaseSanitizingRearm(s) == [s EXCEPT !.currentState = "WAITING_FOR_RFID", !.busy = @ + 2000]

\* case SANITIZING
CaseSanitizing(s) == [s EXCEPT !.currentState = "IDLE", !.busy = @ + 2000]

----------------------------------------------------------------------------
(* Environments: the sets the inputs of one loop() are drawn from.          *)
(* elapse: the time from one reading of millis() at the top of loop() to    *)
(* the next (the delays of the iteration and the iterations in which        *)
(* nothing happens); raw: readings of the moisture ADC; pulse: echo         *)
(* durations in microseconds; tags: results of waitForRFID; fsOk: results   *)
(* of SPIFFS.open; resp: responses of the modem.                            *)

(* steady: the readings of one monitoring period are equal;                 *)
(* keepHistory: the periods are recorded in history; maxClock: the loop     *)
(* is not followed beyond this value of millis(); maxLog: nor beyond this    *)
(* number of journal lines.                                                 *)

\* the gate in use, the reservoir well filled
GateEnv == [elapse |-> {2500, 5000, 12500}, raw |-> {2000}, pulse |-> {0, 4640},
            tags |-> Uids \cup {""}, fsOk |-> BOOLEAN,
            resp |-> {"OK", "AT_BUSY_ERROR", ""}, steady |-> FALSE,
            keepHistory |-> FALSE, maxClock |-> MaxClock, maxLog |-> MaxLog]

\* nobody at the gate, the reservoir level moving: 0 %, 35 %, 45 %
ReservoirEnv == [elapse |-> {30000}, raw |-> {500, 1700, 1900}, pulse |-> {0},
                 tags |-> {""}, fsOk |-> BOOLEAN,
                 resp |-> {"OK", ""}, steady |-> FALSE,
                 keepHistory |-> FALSE, maxClock |-> MaxClockReservoir,
                 maxLog |-> MaxLogReservoir]

\* nobody at the gate, one period per loop(), levels 50 %, 25 %, 20 %, 22 %, 45 %
ScenarioEnv == [elapse |-> {30000}, raw |-> {2000, 1500, 1400, 1440, 1900}, pulse |-> {0},
                tags |-> {""}, fsOk |-> {TRUE},
                resp |-> {"OK"}, steady |-> TRUE,
                keepHistory |-> TRUE, maxClock |-> MaxClockReservoir,
                maxLog |-> MaxLogReservoir]

\* one animal at the gate, the reservoir empty (0 %) or well filled (50 %), the
\* loop() not aligned to the 50 ms of the wait loop of the cycle
SanitizeEnv == [elapse |-> {2510, 5000, 12500}, raw |-> {500, 2000}, pulse |-> {4640},
                tags |-> {"AB12", ""}, fsOk |-> {TRUE},
                resp |-> {"OK"}, steady |-> FALSE,
                keepHistory |-> FALSE, maxClock |-> MaxClockSanitize,
                maxLog |-> MaxLogSanitize]

\* the gate in use with storage and radio working, the power failing
RestartEnv == [elapse |-> {2500, 12500}, raw |-> {2000}, pulse |-> {4640},
               tags |-> Uids \cup {""}, fsOk |-> {TRUE},
               resp |-> {"OK"}, steady |-> FALSE,
               keepHistory |-> FALSE, maxClock |-> MaxClockRestart,
               maxLog |-> MaxLogRestart]

\* one animal at every distance around the presence threshold, storage and
\* radio working: no echo, 0 cm, 80 cm, 119 cm, 120 cm (twice), 121 cm
PresenceEnv == [elapse |-> {2500, 12500}, raw |-> {2000},
                pulse |-> {0, 29, 4640, 6931, 6960, 6989, 7018},
                tags |-> {"AB12", ""}, fsOk |-> {TRUE},
                resp |-> {"OK"}, steady |-> FALSE,
                keepHistory |-> FALSE, maxClock |-> MaxClockPresence,
                maxLog |-> MaxLogPresence]

\* two animals passing the gate one after the other, the radio working, any
\* storage result
LedgerEnv == [elapse |-> {5000, 12500}, raw |-> {2000}, pulse |-> {4640},
              tags |-> Uids \cup {""}, fsOk |-> BOOLEAN,
              resp |-> {"OK"}, steady |-> FALSE,
              keepHistory |-> FALSE, maxClock |-> MaxClockLedger,
              maxLog |-> MaxLogLedger]

\* the inputs a call reads; one value stands for them all when the call reads none.
\* m1: the reading of getMoisturePercentage, m3: the reading of isWaterTankLow
\* (the reading of readMoistureRaw in between is only printed), r1, r2: the
\* modem's responses to the status and to the alert, ok: the open of the journal
AllMoistureInputs(E) ==
    {m \in [m1 : E.raw, m3 : E.raw, r1 : E.resp, r2 : E.resp, ok : E.fsOk] :
        E.steady => m.m1 = m.m3}

NoMoistureInput(E) == CHOOSE m \in AllMoistureInputs(E) : TRUE

\* the period reads r2 and ok only when it raises or clears the alert
ReadsAlertInputs(m) ==
    \/ /\ IsWaterTankLow(m.m3)
       /\ ~lowWaterAlertSent \/ clock - lastMoistureAlert >= MOISTURE_ALERT_INTERVAL
    \/ /\ ~IsWaterTankLow(m.m3)
       /\ lowWaterAlertSent
       /\ GetMoisturePercentage(m.m1) > CLEAR_PERCENT

MoistureInputs(E) ==
    IF clock - lastMoistureCheck >= MOISTURE_CHECK_INTERVAL
    THEN {m \in AllMoistureInputs(E) :
            ReadsAlertInputs(m) \/ (m.r2 = NoMoistureInput(E).r2 /\ m.ok = NoMoistureInput(E).ok)}
    ELSE {NoMoistureInput(E)}

AllFileInputs(E) == [rd1 : E.fsOk, rd2 : E.fsOk, wr : E.fsOk, log : E.fsOk]

FileInputs(E, uid) ==
    IF uid # "" THEN AllFileInputs(E) ELSE {CHOOSE f \in AllFileInputs(E) : TRUE}

Responses(E, uid) == IF uid # "" THEN E.resp ELSE {CHOOSE r \in E.resp : TRUE}

AllSanitizeInputs(E) == [low : E.raw, mid : E.raw, end : E.raw, ok : E.fsOk]

SanitizeInputs(E) ==
    IF clock - stateStartTime >= SANITIZE_DELAY_MS
    THEN AllSanitizeInputs(E)
    ELSE {CHOOSE z \in AllSanitizeInputs(E) : TRUE}

\* the line of the history kept for one monitoring period
HistoryOf(r, m) ==
    [percent |-> r.period.percent, same |-> (m.m1 = m.m3),
     alerted |-> r.period.alerted, cleared |-> r.period.cleared]

\* the state after one loop() that ended in record r and took dt milliseconds
Commit(E, r, m, dt) ==
    /\ dt > r.busy
    /\ Len(r.log) <= E.maxLog
    /\ currentState' = r.currentState
    /\ stateStartTime' = r.stateStartTime
    /\ lastPresenceCheck' = r.lastPresenceCheck
    /\ lastMoistureCheck' = r.lastMoistureCheck
    /\ lastMoistureAlert' = r.lastMoistureAlert
    /\ lowWaterAlertSent' = r.lowWaterAlertSent
    /\ tankRefillNeeded' = r.tankRefillNeeded
    /\ relay' = r.relay
    /\ inside' = r.inside
    /\ log' = r.log
    /\ clock' = clock + dt
    /\ air' = r.air
    /\ trace' = r.trace
    /\ scan' = r.scan
    /\ period' = r.period
    /\ lastEvent' = IF r.scan # NoScan
                    THEN [lastEvent EXCEPT ![r.scan.uid] = r.scan.action]
                    ELSE lastEvent
    /\ prevEvent' = IF r.scan # NoScan
                    THEN [prevEvent EXCEPT ![r.scan.uid] = lastEvent[r.scan.uid]]
                    ELSE prevEvent
    /\ everAlerted' = (everAlerted \/ (r.period.ran /\ r.period.alerted))
    /\ clearedSinceAlert' = IF r.period.ran /\ r.period.alerted THEN FALSE
                            ELSE IF r.period.ran /\ r.period.cleared THEN TRUE
                            ELSE clearedSinceAlert
    /\ history' = IF E.keepHistory /\ r.period.ran
                  THEN Append(history, HistoryOf(r, m))
                  ELSE history
    /\ Len(history') <= MaxHistory
    /\ cycle' = r.cycle
    /\ resolved' = IF r.scan # NoScan THEN r.scan.action ELSE resolved
    /\ entryTime' = IF r.scan.action = "ENTER" THEN clock + r.busy
                    ELSE IF r.currentState = "PROCESSING_ENTRY" \/ r.cycle.ran THEN entryTime
                    ELSE 0
    /\ lastDistance' = r.distance
    /\ boot' = NoBoot
    /\ UNCHANGED boots
    /\ UNCHANGED <<tagVars, pending>>

----------------------------------------------------------------------------
(* loop(), one action per case of the switch *)

LoopIdle(E) ==
    /\ currentState = "IDLE"
    /\ clock < E.maxClock
    /\ \E dt \in E.elapse, m \in MoistureInputs(E), duration \in E.pulse :
          Commit(E, CaseIdle(CheckMoistureLevels(Cur, clock, m), clock, duration), m, dt)

LoopWaitingForRfid(E) ==
    /\ currentState = "WAITING_FOR_RFID"
    /\ clock < E.maxClock
    /\ \E dt \in E.elapse, m \in MoistureInputs(E), uid \in E.tags :
       \E f \in FileInputs(E, uid), resp \in Responses(E, uid) :
          Commit(E, CaseWaitingForRfid(CheckMoistureLevels(Cur, clock, m), clock,
                                       uid, f, resp), m, dt)

LoopProcessingEntry(E) ==
    /\ currentState = "PROCESSING_ENTRY"
    /\ clock < E.maxClock
    /\ \E dt \in E.elapse, m \in MoistureInputs(E), z \in SanitizeInputs(E) :
          Commit(E, CaseProcessingEntry(CheckMoistureLevels(Cur, clock, m), clock, z), m, dt)

LoopSanitizing(E) ==
    /\ currentState = "SANITIZING"
    /\ clock < E.maxClock
    /\ \E dt \in E.elapse, m \in MoistureInputs(E) :
          Commit(E, CaseSanitizing(CheckMoistureLevels(Cur, clock, m)), m, dt)

----------------------------------------------------------------------------
(* loop() run without end.  The code reads its timestamps only in tests      *)
(* millis() - timestamp >= interval, so the state keeps, in place of a      *)
(* timestamp, its distance to the millis() of the next loop() (0 or          *)
(* negative), no further than the interval it is compared with; a timestamp  *)
(* that is written again before it is next read is kept at that interval.    *)
(* The journal, which loop() only appends to, is not kept, and the ledger,   *)
(* which the code reads as a set of lines, is kept without repeated lines.   *)

\* one animal; any echo, storage result and radio response
LiveEnv == [elapse |-> {5000, 12500}, raw |-> {2000}, pulse |-> {0, 4640},
            tags |-> {"AB12", ""}, fsOk |-> BOOLEAN,
            resp |-> {"OK", ""}, steady |-> FALSE,
            keepHistory |-> FALSE, maxClock |-> 0, maxLog |-> 0]

Max(a, b) == IF a > b THEN a ELSE b

\* the timestamp ts seen from the next loop(), dt later
Aged(ts, dt, interval) == Max(ts - dt, 0 - interval)

RECURSIVE Dedupe(_)
Dedupe(v) ==
    IF v = <<>> THEN <<>>
    ELSE LET d == Dedupe(SubSeq(v, 1, Len(v) - 1))
         IN  IF InSeq(d, v[Len(v)]) THEN d ELSE Append(d, v[Len(v)])

\* the inputs of one loop(): the readings, tags, storage results and responses it
\* will find, and rest, the time the iteration takes beside its own delays
LiveInputs(E) ==
    {[set |-> TRUE, rest |-> dt, m |-> m, duration |-> duration, uid |-> uid,
      f |-> f, resp |-> resp, z |-> z] :
        dt \in E.elapse, m \in MoistureInputs(E),
        duration \in (IF currentState = "IDLE" THEN E.pulse
                      ELSE {CHOOSE d \in E.pulse : TRUE}),
        uid \in (IF currentState = "WAITING_FOR_RFID" THEN E.tags ELSE {""}),
        f \in AllFileInputs(E), resp \in E.resp,
        z \in (IF currentState = "PROCESSING_ENTRY" THEN SanitizeInputs(E)
               ELSE {CHOOSE z \in AllSanitizeInputs(E) : TRUE})}

\* the inputs the loop() in the current state reads
LiveInputsRead(E) ==
    {i \in LiveInputs(E) :
        /\ i.f \in FileInputs(E, i.uid)
        /\ i.resp \in Responses(E, i.uid)}

\* the world settles what the next loop() will find
LiveSense(E) ==
    /\ pending = NoInputs
    /\ pending' \in LiveInputsRead(E)
    /\ UNCHANGED <<gateVars, tagVars>>

\* the state after one loop() that ended in record r, dt milliseconds later; the
\* journal, which loop() only appends to, and the record of what the iteration
\* sent and did are not carried along
CommitLive(E, r, dt) ==
    /\ currentState' = r.currentState
    /\ stateStartTime' = IF r.currentState \in {"IDLE", "SANITIZING"}
                         THEN 0 - RFID_WAIT_AFTER_PRESENCE_MS
                         ELSE Aged(r.stateStartTime, dt, RFID_WAIT_AFTER_PRESENCE_MS)
    /\ lastPresenceCheck' = Aged(r.lastPresenceCheck, dt, PRESENCE_POLL_MS)
    /\ lastMoistureCheck' = Aged(r.lastMoistureCheck, dt, MOISTURE_CHECK_INTERVAL)
    /\ lastMoistureAlert' = IF r.lowWaterAlertSent
                            THEN Aged(r.lastMoistureAlert, dt, MOISTURE_ALERT_INTERVAL)
                            ELSE 0 - MOISTURE_ALERT_INTERVAL
    /\ lowWaterAlertSent' = r.lowWaterAlertSent
    /\ tankRefillNeeded' = r.tankRefillNeeded
    /\ relay' = r.relay
    /\ inside' = Dedupe(r.inside)
    /\ log' = <<>>
    /\ clock' = 0
    /\ air' = <<>>
    /\ trace' = <<>>
    /\ scan' = r.scan
    /\ period' = NoPeriod
    /\ cycle' = NoCycle
    /\ lastEvent' = IF r.scan # NoScan
                    THEN [lastEvent EXCEPT ![r.scan.uid] = r.scan.action]
                    ELSE lastEvent
    /\ prevEvent' = IF r.scan # NoScan
                    THEN [prevEvent EXCEPT ![r.scan.uid] = lastEvent[r.scan.uid]]
                    ELSE prevEvent
    /\ resolved' = IF r.scan # NoScan THEN r.scan.action ELSE resolved
    /\ everAlerted' = (everAlerted \/ (r.period.ran /\ r.period.alerted))
    /\ clearedSinceAlert' = IF r.period.ran /\ r.period.alerted THEN FALSE
                            ELSE IF r.period.ran /\ r.period.cleared THEN TRUE
                            ELSE clearedSinceAlert
    /\ boot' = NoBoot
    /\ pending' = NoInputs
    /\ lastDistance' = NoDistance
    /\ UNCHANGED <<history, boots, entryTime>>
    /\ UNCHANGED tagVars

LiveIdle(E) ==
    /\ pending # NoInputs
    /\ currentState = "IDLE"
    /\ LET r == CaseIdle(CheckMoistureLevels(Cur, clock, pending.m), clock, pending.duration)
       IN  CommitLive(E, r, r.busy + pending.rest)

LiveWaitingForRfid(E) ==
    /\ pending # NoInputs
    /\ currentState = "WAITING_FOR_RFID"
    /\ LET r == CaseWaitingForRfid(CheckMoistureLevels(Cur, clock, pending.m), clock,
                                   pending.uid, pending.f, pending.resp)
       IN  CommitLive(E, r, r.busy + pending.rest)

LiveProcessingEntry(E) ==
    /\ pending # NoInputs
    /\ currentState = "PROCESSING_ENTRY"
    /\ LET r == CaseProcessingEntry(CheckMoistureLevels(Cur, clock, pending.m), clock,
                                    pending.z)
       IN  CommitLive(E, r, r.busy + pending.rest)

LiveSanitizing(E) ==
    /\ pending # NoInputs
    /\ currentState = "SANITIZING"
    /\ LET r == CaseSanitizing(CheckMoistureLevels(Cur, clock, pending.m))
       IN  CommitLive(E, r, r.busy + pending.rest)

----------------------------------------------------------------------------
(* The state after setup() on a device whose flash holds no files, with     *)
(* millis() counted from the end of setup()                                 *)

InitGate ==
    /\ currentState = "IDLE"
    /\ stateStartTime = 0
    /\ lastPresenceCheck = 0
    /\ lastMoistureCheck = 0
    /\ lastMoistureAlert = 0
    /\ lowWaterAlertSent = FALSE
    /\ tankRefillNeeded = FALSE
    /\ relay = FALSE
    /\ inside = <<>>
    /\ log = <<>>
    /\ clock = 0
    /\ air = <<>>
    /\ trace = <<>>
    /\ scan = NoScan
    /\ period = NoPeriod
    /\ lastEvent = [u \in Uids |-> "NONE"]
    /\ prevEvent = [u \in Uids |-> "NONE"]
    /\ everAlerted = FALSE
    /\ clearedSinceAlert = FALSE
    /\ history = <<>>
    /\ cycle = NoCycle
    /\ resolved = "NONE"
    /\ boot = NoBoot
    /\ boots = 0
    /\ entryTime = 0
    /\ lastDistance = NoDistance

\* a variant of setup() that rebuilds the ledger from the journal: the
\* identities whose last journal line is ENTER
SetupRebuildsLedger(insideFile, logFile, raw, resp) ==
    LET lastLine(u) == CHOOSE i \in 0..Len(logFile) :
                          /\ i > 0 => logFile[i].uid = u
                          /\ \A j \in (i + 1)..Len(logFile) : logFile[j].uid # u
        isIn(u) == lastLine(u) > 0 /\ logFile[lastLine(u)].action = "ENTER"
        s0 == [currentState |-> "IDLE", stateStartTime |-> 0, lastPresenceCheck |-> 0,
               lastMoistureCheck |-> 0, lastMoistureAlert |-> 0,
               lowWaterAlertSent |-> FALSE, tankRefillNeeded |-> FALSE,
               relay |-> FALSE, inside |-> SelectSeq(<<"AB12", "CD34">>, isIn),
               log |-> logFile,
               air |-> <<>>, trace |-> <<Ev("relay", "OFF", TRUE)>>, scan |-> NoScan,
               period |-> NoPeriod, cycle |-> NoCycle, ret |-> FALSE, busy |-> 0]
    IN  LoraSendData(s0, "SYSTEM_STARTUP", GetMoisturePercentage(raw), resp)

\* setup() on a device whose flash holds insideFile and logFile: the globals
\* have their initial values, the relay is driven LOW, SYSTEM_STARTUP is sent,
\* the timers are set to millis() (counted from here); the files are not touched
Setup(insideFile, logFile, raw, resp) ==
    LET s0 == [currentState |-> "IDLE", stateStartTime |-> 0, lastPresenceCheck |-> 0,
               lastMoistureCheck |-> 0, lastMoistureAlert |-> 0,
               lowWaterAlertSent |-> FALSE, tankRefillNeeded |-> FALSE,
               relay |-> FALSE, inside |-> insideFile, log |-> logFile,
               air |-> <<>>, trace |-> <<Ev("relay", "OFF", TRUE)>>, scan |-> NoScan,
               period |-> NoPeriod, cycle |-> NoCycle, ret |-> FALSE, busy |-> 0]
    IN  LoraSendData(s0, "SYSTEM_STARTUP", GetMoisturePercentage(raw), resp)

\* what a restart interrupted.  kind: the call the power was lost in ("reset"
\* for a reset between two calls), state, relayOn: the gate state and the
\* relay when the power was lost, uid: the identity being scanned, before,
\* after: the ledger before and after the ledger mutation of the scan, stored:
\* the lines of /inside.txt in the flash when the power was lost
BootOf(kind, state, relayOn, uid, before, after, stored) ==
    [kind |-> kind, state |-> state, relayOn |-> relayOn, uid |-> uid,
     before |-> before, after |-> after, stored |-> stored]

\* the device restarts with logFile in the flash and b.stored as the ledger
Reboot(E, logFile, b) ==
    /\ boots < MaxBoots
    /\ \E raw \in E.raw, resp \in E.resp :
          LET r == Setup(b.stored, logFile, raw, resp)
          IN  /\ currentState' = r.currentState
              /\ stateStartTime' = r.stateStartTime
              /\ lastPresenceCheck' = r.lastPresenceCheck
              /\ lastMoistureCheck' = r.lastMoistureCheck
              /\ lastMoistureAlert' = r.lastMoistureAlert
              /\ lowWaterAlertSent' = r.lowWaterAlertSent
              /\ tankRefillNeeded' = r.tankRefillNeeded
              /\ relay' = r.relay
              /\ inside' = r.inside
              /\ log' = r.log
              /\ air' = r.air
              /\ trace' = r.trace
              /\ scan' = r.scan
              /\ period' = r.period
              /\ cycle' = r.cycle
    /\ clock' = 0
    /\ everAlerted' = FALSE
    /\ clearedSinceAlert' = FALSE
    /\ boot' = b
    /\ boots' = boots + 1
    /\ lastDistance' = NoDistance
    /\ entryTime' = 0
    /\ UNCHANGED <<lastEvent, prevEvent, resolved, history>>
    /\ UNCHANGED <<tagVars, pending>>

\* a reset between two file writes, in any gate state: the files are as they were
Restart(E) ==
    /\ currentState \in {"IDLE", "WAITING_FOR_RFID", "PROCESSING_ENTRY", "SANITIZING"}
    /\ Reboot(E, log, BootOf("reset", currentState, relay, "", inside, inside, inside))

\* the power is lost while doSanitizeCycle waits with the relay on
PowerLossInSanitize(E) ==
    /\ currentState = "PROCESSING_ENTRY"
    /\ clock - stateStartTime >= SANITIZE_DELAY_MS
    /\ Reboot(E, log, BootOf("sanitize", "SANITIZING", TRUE, "", inside, inside, inside))

\* the power is lost in addUidToInside, between the open for append and the
\* close: the line is in the flash or it is not
PowerLossInAdd(E) ==
    /\ currentState = "WAITING_FOR_RFID"
    /\ \E uid \in E.tags \ {""} :
          /\ ~UidInList(Cur, uid, TRUE)
          /\ \E stored \in {inside, Append(inside, uid)} :
                Reboot(E, log, BootOf("add", currentState, relay, uid,
                                      inside, Append(inside, uid), stored))

\* the power is lost in removeUidFromInside, between the open with FILE_WRITE,
\* which empties the file, and the close: the lines written so far are in the flash
PowerLossInRemove(E) ==
    /\ currentState = "WAITING_FOR_RFID"
    /\ \E uid \in E.tags \ {""} :
          /\ UidInList(Cur, uid, TRUE)
          /\ LET newv == SeqFilterOut(ReadInsideList(Cur, TRUE), uid)
             IN  \E k \in 0..Len(newv) :
                    Reboot(E, log, BootOf("remove", currentState, relay, uid,
                                          inside, newv, SubSeq(newv, 1, k)))

\* the power is lost in appendLog after the ledger mutation of a scan: the
\* journal line is in the flash or it is not
PowerLossInAppendLog(E) ==
    /\ currentState = "WAITING_FOR_RFID"
    /\ Len(log) < E.maxLog
    /\ \E uid \in E.tags \ {""} :
          LET entry == ~UidInList(Cur, uid, TRUE)
              s1 == IF entry THEN AddUidToInside(Cur, uid, TRUE, TRUE)
                    ELSE RemoveUidFromInside(Cur, uid, TRUE, TRUE)
              line == LogLine(uid, IF entry THEN "ENTER" ELSE "EXIT", <<>>)
          IN  \E logFile \in {log, Append(log, line)} :
                 Reboot(E, logFile, BootOf("journal", currentState, relay, uid,
                                           inside, s1.inside, s1.inside))

InitTag ==
    /\ attempts = 0
    /\ sent = FALSE
    /\ pc = "build"
    /\ resps = <<>>
    /\ tx = 0
    /\ backoff = <<>>
    /\ jsonPayload = <<>>
    /\ hexPayload = <<>>

----------------------------------------------------------------------------
(* The tag firmware's loop(): build the payload, send it with retries, wait *)

TagResponses == {"OK", "+EVT:TXP2P DONE", "AT_BUSY_ERROR", "AT_ERROR", ""}

\* the tests of the retry loop on the modem's response
TagSendSuccess(resp) ==
    \/ Contains(resp, "OK")
    \/ Contains(resp, "+EVT:TXP2P DONE")
    \/ Contains(resp, "SEND_CONFIRMED_OK")

TagSendBusy(resp) == Contains(resp, "AT_BUSY_ERROR") \/ Contains(resp, "BUSY")

\* the loop condition of the retry loop
TagRetrying == attempts < maxRetries /\ ~sent

\* the sensors are read, the payload is built, the counters are initialised
TagBuild ==
    /\ pc = "build"
    /\ attempts' = 0
    /\ sent' = FALSE
    /\ resps' = <<>>
    /\ tx' = 0
    /\ backoff' = <<>>
    /\ \E payload \in Payloads :
          /\ jsonPayload' = payload
          /\ hexPayload' = ToHex(payload)
    /\ pc' = "send"
    /\ UNCHANGED <<gateVars, pending>>

\* a variant of the retry loop that computes the backoff before it counts the attempt
TagAttemptBackoffBeforeCount ==
    /\ pc = "send"
    /\ TagRetrying
    /\ \E resp \in TagResponses :
          /\ tx' = tx + 1
          /\ resps' = Append(resps, resp)
          /\ IF TagSendSuccess(resp)
             THEN /\ sent' = TRUE
                  /\ UNCHANGED <<attempts, backoff>>
             ELSE IF TagSendBusy(resp)
             THEN /\ attempts' = attempts + 1
                  /\ backoff' = Append(backoff, 50 + attempts * 50)
                  /\ UNCHANGED sent
             ELSE /\ attempts' = attempts + 1
                  /\ backoff' = Append(backoff, 50)
                  /\ UNCHANGED sent
    /\ UNCHANGED <<pc, jsonPayload, hexPayload, gateVars, pending>>

\* one pass of the retry loop: sendAT(atcmd), readRakResponse(800), the three branches
TagAttempt ==
    /\ pc = "send"
    /\ TagRetrying
    /\ \E resp \in TagResponses :
          /\ tx' = tx + 1
          /\ resps' = Append(resps, resp)
          /\ IF TagSendSuccess(resp)
             THEN /\ sent' = TRUE
                  /\ UNCHANGED <<attempts, backoff>>
             ELSE IF TagSendBusy(resp)
             THEN /\ attempts' = attempts + 1
                  /\ backoff' = Append(backoff, 50 + attempts' * 50)
                  /\ UNCHANGED sent
             ELSE /\ attempts' = attempts + 1
                  /\ backoff' = Append(backoff, 50)
                  /\ UNCHANGED sent
    /\ UNCHANGED <<pc, jsonPayload, hexPayload, gateVars, pending>>

\* the retry loop is left; a failure is printed and the loop() carries on
TagSendEnd ==
    /\ pc = "send"
    /\ ~TagRetrying
    /\ pc' = "wait"
    /\ UNCHANGED <<attempts, sent, resps, tx, backoff, jsonPayload, hexPayload, gateVars, pending>>

\* the wait for the send interval, then loop() is entered again
TagWait ==
    /\ pc = "wait"
    /\ pc' = "build"
    /\ UNCHANGED <<attempts, sent, resps, tx, backoff, jsonPayload, hexPayload, gateVars, pending>>

\* the gate idle, one reservoir period (one MOISTURE_STATUS send) per loop()
RadioEnv == [elapse |-> {30000}, raw |-> {2000}, pulse |-> {0},
             tags |-> {""}, fsOk |-> {TRUE},
             resp |-> {"OK", "AT_BUSY_ERROR", ""}, steady |-> FALSE,
             keepHistory |-> FALSE, maxClock |-> MaxClock, maxLog |-> MaxLog]

Init == InitGate /\ InitTag /\ pending = NoInputs

Next ==
    \/ LoopIdle(GateEnv)
    \/ LoopWaitingForRfid(GateEnv)
    \/ LoopProcessingEntry(GateEnv)
    \/ LoopSanitizing(GateEnv)

\* the gate controller in use
Spec == Init /\ [][Next]_vars

NextReservoir == LoopIdle(ReservoirEnv)

\* the reservoir monitor over more than one re-alert interval
SpecReservoir == Init /\ [][NextReservoir]_vars

NextRadio == TagBuild \/ TagAttempt \/ TagSendEnd \/ TagWait \/ LoopIdle(RadioEnv)

\* the radio sends of the two firmwares
SpecRadio == Init /\ [][NextRadio]_vars

NextScenario == LoopIdle(ScenarioEnv)

\* the reservoir monitor over five consecutive periods
SpecScenario == Init /\ [][NextScenario]_vars

NextSanitize ==
    \/ LoopIdle(SanitizeEnv)
    \/ LoopWaitingForRfid(SanitizeEnv)
    \/ LoopProcessingEntry(SanitizeEnv)
    \/ LoopSanitizing(SanitizeEnv)

\* entries and sanitization cycles at every reservoir level
SpecSanitize == Init /\ [][NextSanitize]_vars

NextPresence ==
    \/ LoopIdle(PresenceEnv)
    \/ LoopWaitingForRfid(PresenceEnv)
    \/ LoopProcessingEntry(PresenceEnv)
    \/ LoopSanitizing(PresenceEnv)

\* the presence poll at every distance around the threshold
SpecPresence == Init /\ [][NextPresence]_vars

NextLedger ==
    \/ LoopIdle(LedgerEnv)
    \/ LoopWaitingForRfid(LedgerEnv)
    \/ LoopProcessingEntry(LedgerEnv)
    \/ LoopSanitizing(LedgerEnv)

\* two animals inside at once
SpecLedger == Init /\ [][NextLedger]_vars

NextRestart ==
    \/ LoopIdle(RestartEnv)
    \/ LoopWaitingForRfid(RestartEnv)
    \/ LoopProcessingEntry(RestartEnv)
    \/ LoopSanitizing(RestartEnv)
    \/ Restart(RestartEnv)
    \/ PowerLossInSanitize(RestartEnv)
    \/ PowerLossInAdd(RestartEnv)
    \/ PowerLossInRemove(RestartEnv)
    \/ PowerLossInAppendLog(RestartEnv)

\* the gate controller with resets and power losses
SpecRestart == Init /\ [][NextRestart]_vars

NextLive ==
    \/ LiveSense(LiveEnv)
    \/ LiveIdle(LiveEnv)
    \/ LiveWaitingForRfid(LiveEnv)
    \/ LiveProcessingEntry(LiveEnv)
    \/ LiveSanitizing(LiveEnv)

\* a step in which loop() runs: of NextLive, exactly the steps of the four loop actions
LoopRuns == pending # NoInputs /\ pending' = NoInputs

\* the gate controller run without end: the runtime calls loop() again and again,
\* and every loop() returns
SpecLive == Init /\ [][NextLive]_vars /\ WF_vars(LiveSense(LiveEnv)) /\ WF_pending(LoopRuns)

----------------------------------------------------------------------------
(* Properties of the gate controller *)

\* the positions in the trace of the operations op that concern one of whats
OpsOf(tr, op, whats) == {i \in 1..Len(tr) : tr[i].op = op /\ tr[i].what \in whats}

ScanLedgerOps(tr) == OpsOf(tr, "ledger", Uids)
ScanJournalOps(tr) == OpsOf(tr, "journal", {"ENTER", "EXIT"})
ScanRadioOps(tr) == OpsOf(tr, "radio", {"ENTRY", "EXIT"})

\* C1: the resolved events of every identity alternate ENTER, EXIT, ENTER, ...,
\* starting with ENTER, and a scan resolved as EXIT leaves the identity out of
\* the ledger.
C1_EventsAlternate ==
    /\ \A u \in Uids :
          lastEvent[u] # "NONE" =>
             /\ lastEvent[u] # prevEvent[u]
             /\ prevEvent[u] = "NONE" => lastEvent[u] = "ENTER"
    /\ scan.action = "EXIT" => ~InSeq(inside, scan.uid)

\* C2: a tag that is not in the ledger and is read in WAITING_FOR_RFID resolves
\* as ENTRY: after the step the identity is in the ledger, an ENTER line for it
\* ends the journal, an ENTRY message for it was handed to the modem and the
\* state is PROCESSING_ENTRY.
C2_EntryResolved ==
    [][(currentState = "WAITING_FOR_RFID" /\ scan' # NoScan /\ ~InSeq(inside, scan'.uid)) =>
          /\ scan'.action = "ENTER"
          /\ InSeq(inside', scan'.uid)
          /\ Len(log') > Len(log)
          /\ log'[Len(log')] = LogLine(scan'.uid, "ENTER", <<>>)
          /\ \E i \in 1..Len(air') :
                /\ air'[i].type = "ENTRY"
                /\ air'[i].rfid_uid = scan'.uid
          /\ currentState' = "PROCESSING_ENTRY"]_vars

\* C3: between scans an identity is in the ledger exactly when its last
\* resolved event is ENTER.
C3_LedgerIffLastEnter ==
    \A u \in Uids : InSeq(inside, u) <=> lastEvent[u] = "ENTER"

\* C5: a resolved scan whose ledger mutation was not written appends no journal
\* line and hands no message to the modem.
C5_NoJournalWithoutLedger ==
    (scan # NoScan /\ \E i \in ScanLedgerOps(trace) : ~trace[i].ok) =>
        (ScanJournalOps(trace) = {} /\ ScanRadioOps(trace) = {})

\* C4: in every resolved scan the ledger is written first, then the journal
\* line is appended, then the message is handed to the modem: each of the three
\* is done once, in this order.
C4_LedgerJournalRadioOrder ==
    scan # NoScan =>
        /\ Cardinality(ScanLedgerOps(trace)) = 1
        /\ Cardinality(ScanJournalOps(trace)) = 1
        /\ Cardinality(ScanRadioOps(trace)) = 1
        /\ \A l \in ScanLedgerOps(trace), j \in ScanJournalOps(trace),
              r \in ScanRadioOps(trace) :
                /\ l < j
                /\ j < r
                /\ trace[l].what = scan.uid
                /\ trace[j].what = scan.action

\* an entry was resolved in a loop() that also ran the reservoir period
C4_Witness ==
    /\ scan.action = "ENTER"
    /\ Len(trace) = 4
    /\ trace[1].what = "MOISTURE_STATUS"
    /\ trace[4].what = "ENTRY"

\* C7: whatever the results of the journal append and of the radio send of a
\* resolved scan, the next state is PROCESSING_ENTRY after an entry and IDLE
\* after an exit, the ledger is what the ledger write made it, and no line of
\* the journal is taken back.
C7_FailuresChangeNothing ==
    [][scan' # NoScan =>
          LET u == scan'.uid
              a == scan'.action
              ledgerOk == \E i \in ScanLedgerOps(trace') : trace'[i].ok
              journalOk == \E i \in ScanJournalOps(trace') : trace'[i].ok
          IN  /\ currentState' = IF a = "ENTER" THEN "PROCESSING_ENTRY" ELSE "IDLE"
              /\ a = "ENTER" =>
                    inside' = IF ledgerOk THEN Append(inside, u) ELSE inside
              /\ a = "EXIT" =>
                    IF ledgerOk
                    THEN inside' \in {SeqFilterOut(inside, u), <<>>}
                    ELSE inside' = inside
              /\ Len(log') >= Len(log)
              /\ SubSeq(log', 1, Len(log)) = log
              /\ journalOk => log'[Len(log')] = LogLine(u, a, <<>>)]_vars

\* an entry whose journal append and radio send both failed
C7_Witness ==
    /\ scan.action = "ENTER"
    /\ \E i \in ScanLedgerOps(trace) : trace[i].ok
    /\ \E i \in ScanJournalOps(trace) : ~trace[i].ok
    /\ \E i \in ScanRadioOps(trace) : ~trace[i].ok
    /\ currentState = "PROCESSING_ENTRY"
    /\ InSeq(inside, scan.uid)

\* C14: a loop() in WAITING_FOR_RFID that reads no tag and finds the wait window
\* (RFID_WAIT_AFTER_PRESENCE_MS, 10 s) passed returns to IDLE; it leaves the
\* ledger and the journal as they were and hands no ENTRY or EXIT message to
\* the modem; before the window has passed the controller keeps waiting.
C14_TimeoutAbandonsScan ==
    [][(currentState = "WAITING_FOR_RFID" /\ scan' = NoScan) =>
          /\ inside' = inside
          /\ ScanLedgerOps(trace') = {}
          /\ ScanJournalOps(trace') = {}
          /\ ScanRadioOps(trace') = {}
          /\ OpsOf(trace', "journal", {"LOW_WATER_ALERT", "WATER_LEVEL_NORMAL"}) = {} =>
                log' = log
          /\ \A i \in 1..Len(air') : air'[i].type \notin {"ENTRY", "EXIT"}
          /\ lastEvent' = lastEvent
          /\ currentState' = IF clock - stateStartTime >= RFID_WAIT_AFTER_PRESENCE_MS
                             THEN "IDLE" ELSE "WAITING_FOR_RFID"]_vars

\* the window passed with AB12 inside and one line in the journal: the
\* controller is back in IDLE, ledger and journal as before, nothing sent
C14_Witness ==
    /\ currentState = "IDLE"
    /\ scan = NoScan
    /\ clock - stateStartTime >= RFID_WAIT_AFTER_PRESENCE_MS + 2500
    /\ lastPresenceCheck = stateStartTime
    /\ inside = <<"AB12">>
    /\ Len(log) = 1
    /\ air = <<>>
    /\ trace = <<>>

\* C15: the distance is polled only by a loop() that starts in IDLE,
\* WAITING_FOR_RFID is entered only from IDLE, and a scan is resolved only by a
\* loop() that starts in WAITING_FOR_RFID and leaves it: at most one identity
\* is resolved between two visits of IDLE.
C15_OneScanInFlight ==
    [][/\ lastPresenceCheck' # lastPresenceCheck => currentState = "IDLE"
       /\ (currentState' = "WAITING_FOR_RFID" /\ currentState # "WAITING_FOR_RFID") =>
             (currentState = "IDLE" /\ lastPresenceCheck' = clock)
       /\ scan' # NoScan =>
             /\ currentState = "WAITING_FOR_RFID"
             /\ currentState' \in {"IDLE", "PROCESSING_ENTRY"}
       /\ currentState \in {"PROCESSING_ENTRY", "SANITIZING"} =>
             currentState' \in {"PROCESSING_ENTRY", "SANITIZING", "IDLE"}]_vars

\* an entry is being processed and the distance has not been polled since the
\* presence that started the scan, more than the entry delay ago
C15_Witness ==
    /\ currentState = "SANITIZING"
    /\ lastEvent["CD34"] = "ENTER"
    /\ scan = NoScan
    /\ clock - lastPresenceCheck > SANITIZE_DELAY_MS + SANITIZE_DURATION_MS

\* C16: the loop() that resolves a scan as EXIT ends in IDLE and does not
\* touch the relay, and while the last resolved scan is an EXIT the controller
\* is in IDLE or waiting for a tag and the relay is never switched on: the
\* relay is switched on only when the last resolved scan is an ENTRY.
C16_ExitSkipsSanitize ==
    /\ scan.action = "EXIT" =>
          /\ currentState = "IDLE"
          /\ OpsOf(trace, "relay", {"ON", "OFF"}) = {}
    /\ resolved = "EXIT" =>
          /\ currentState \in {"IDLE", "WAITING_FOR_RFID"}
          /\ ~cycle.ran
          /\ ~relay
    /\ OpsOf(trace, "relay", {"ON"}) # {} => resolved = "ENTER"

\* AB12 went in and out, and the controller is already waiting for the next
\* tag: no cycle was run for the exit
C16_Witness ==
    /\ resolved = "EXIT"
    /\ lastEvent["AB12"] = "EXIT"
    /\ prevEvent["AB12"] = "ENTER"
    /\ scan = NoScan
    /\ currentState = "WAITING_FOR_RFID"
    /\ ~relay

\* the operations of a trace that switch the relay or append the journal line
\* of the cycle, in order
CycleOps(tr) ==
    SelectSeq(tr, LAMBDA e : e.op = "relay" \/ (e.op = "journal" /\ e.what = "SANITIZE_COMPLETE"))

\* C13: a resolved ENTRY puts the controller in PROCESSING_ENTRY; it stays there,
\* resolving no scan, until SANITIZE_DELAY_MS has passed since the entry; the
\* loop() that finds the delay passed switches the relay on, off after
\* SANITIZE_DURATION_MS, and then appends the line SYSTEM, SANITIZE_COMPLETE,
\* percent to the journal (when it can be opened), so that a journal that held
\* only ENTER X becomes [ENTER X, SYSTEM SANITIZE_COMPLETE]; the next loop()
\* returns to IDLE, again resolving no scan.
C13_EntryThenSanitizeThenIdle ==
    [][/\ scan'.action = "ENTER" =>
             (currentState' = "PROCESSING_ENTRY" /\ stateStartTime' = clock)
       /\ currentState = "PROCESSING_ENTRY" =>
             /\ scan' = NoScan
             /\ IF clock - stateStartTime >= SANITIZE_DELAY_MS
                THEN /\ currentState' = "SANITIZING"
                     /\ cycle'.ran
                     /\ cycle'.onAt - stateStartTime >= SANITIZE_DELAY_MS
                     /\ cycle'.offAt - cycle'.onAt = SANITIZE_DURATION_MS
                     /\ Len(CycleOps(trace')) = 3
                     /\ CycleOps(trace')[1] = Ev("relay", "ON", TRUE)
                     /\ CycleOps(trace')[2] = Ev("relay", "OFF", TRUE)
                     /\ CycleOps(trace')[3].op = "journal"
                     /\ ~relay'
                     /\ CycleOps(trace')[3].ok =>
                           log' = Append(log, LogLine("SYSTEM", "SANITIZE_COMPLETE",
                                                      <<cycle'.percent>>))
                     /\ \A u \in Uids :
                           (CycleOps(trace')[3].ok /\ log = <<LogLine(u, "ENTER", <<>>)>>) =>
                              /\ Len(log') = 2
                              /\ log'[1] = LogLine(u, "ENTER", <<>>)
                              /\ log'[2].uid = "SYSTEM"
                              /\ log'[2].action = "SANITIZE_COMPLETE"
                ELSE /\ currentState' = "PROCESSING_ENTRY"
                     /\ ~cycle'.ran
                     /\ CycleOps(trace') = <<>>
                     /\ ~relay'
       /\ currentState = "SANITIZING" =>
             /\ currentState' = "IDLE"
             /\ scan' = NoScan
             /\ CycleOps(trace') = <<>>
             /\ ~relay'
             /\ log' = log]_vars

\* the controller is back in IDLE after the single entry of AB12 and its cycle
C13_Witness ==
    /\ currentState = "IDLE"
    /\ inside = <<"AB12">>
    /\ log = <<LogLine("AB12", "ENTER", <<>>), LogLine("SYSTEM", "SANITIZE_COMPLETE", <<50>>)>>
    /\ lastEvent["AB12"] = "ENTER"
    /\ prevEvent["AB12"] = "NONE"
    /\ ~relay

----------------------------------------------------------------------------
(* Properties of the radio sends *)

\* the position of the first success in a sequence of results, none if there is no success
FirstSuccess(oks, none) ==
    IF \E i \in 1..Len(oks) : oks[i]
    THEN CHOOSE i \in 1..Len(oks) : oks[i] /\ \A j \in 1..(i - 1) : ~oks[j]
    ELSE none

\* the results of the transmissions of the tag's current send
TagOks == [i \in 1..Len(resps) |-> TagSendSuccess(resps[i])]

\* the send of the tag firmware: transmissions = min(limit, first success), and
\* four BUSY responses give four transmissions and a failed send
TagSendAttempts ==
    pc = "wait" =>
        /\ tx = Min(maxRetries, FirstSuccess(TagOks, maxRetries))
        /\ sent <=> \E i \in 1..Len(resps) : TagOks[i]
        /\ (Len(resps) >= maxRetries /\ \A i \in 1..maxRetries : TagSendBusy(resps[i])) =>
              (tx = maxRetries /\ ~sent)

\* the results of the transmissions of the message of the gate's radio operation i
GateOks(i) ==
    LET same == OpsOf(trace, "radio", {trace[i].what})
        pos == [k \in 1..Cardinality(same) |->
                   CHOOSE j \in same : Cardinality({h \in same : h < j}) = k - 1]
    IN  [k \in 1..Cardinality(same) |-> trace[pos[k]].ok]

\* the sends of the gate firmware in the last loop(): transmissions of a message =
\* min(limit, first success)
GateSendAttempts ==
    \A i \in OpsOf(trace, "radio", {"ENTRY", "EXIT", "WATER_ALERT", "MOISTURE_STATUS"}) :
        Len(GateOks(i)) = Min(maxRetries, FirstSuccess(GateOks(i), maxRetries))

\* C6: a radio send makes min(limit, position of the first SUCCESS) transmissions,
\* limit = 4: a SUCCESS stops the retries, and four BUSY responses give exactly
\* four transmissions and a failed send.
C6_AttemptsMinLimitFirstSuccess == TagSendAttempts /\ GateSendAttempts

\* the failed attempts of the tag's current send that got a BUSY response
TagBusyAt == {i \in 1..Len(backoff) : TagSendBusy(resps[i])}

C21_HexRoundTrip ==
    /\ Len(hexPayload) = 2 * Len(jsonPayload)
    /\ \A i \in 1..Len(hexPayload) : \E n \in 1..16 : HexDigits[n] = hexPayload[i]
    /\ FromHex(hexPayload) = jsonPayload
    /\ ToHex(FromHex(hexPayload)) = hexPayload

\* a payload with a byte under 0x10 and a non-ASCII byte is being sent
C21_Witness ==
    /\ pc = "send"
    /\ jsonPayload = <<15, 255>>
    /\ hexPayload = <<"0", "F", "F", "F">>

----------------------------------------------------------------------------
(* Properties of the reservoir monitor *)

\* the positions in a sequence of messages of those of one type
MessagesOf(msgs, type) == {i \in 1..Len(msgs) : msgs[i].type = type}

\* C8: after a WATER_ALERT a further WATER_ALERT is sent only when the re-alert
\* interval has passed since the last one and the reading is low, or when the
\* alert flag was reset in between; the flag is reset only by a period whose
\* percentage is above 40, and that period appends a WATER_LEVEL_NORMAL line
\* (when the journal can be opened).
C8_AlertOnceWithHysteresis ==
    [][/\ (everAlerted /\ MessagesOf(air', "WATER_ALERT") # {}) =>
             \/ /\ clock - lastMoistureAlert >= MOISTURE_ALERT_INTERVAL
                /\ period'.low
             \/ clearedSinceAlert
       /\ Cardinality(MessagesOf(air', "WATER_ALERT")) <= 1
       /\ (lowWaterAlertSent /\ ~lowWaterAlertSent') =>
             /\ period'.percent > CLEAR_PERCENT
             /\ ~period'.low
             /\ clearedSinceAlert'
             /\ \A i \in OpsOf(trace', "journal", {"WATER_LEVEL_NORMAL"}) :
                   trace'[i].ok =>
                      log'[Len(log')] = LogLine("SYSTEM", "WATER_LEVEL_NORMAL",
                                                <<period'.percent>>)
             /\ OpsOf(trace', "journal", {"WATER_LEVEL_NORMAL"}) # {}]_vars

\* the alert was raised again one re-alert interval after the first alert,
\* with no reset in between
C8_Witness ==
    /\ MessagesOf(air, "WATER_ALERT") # {}
    /\ lastMoistureAlert = MOISTURE_CHECK_INTERVAL + MOISTURE_ALERT_INTERVAL
    /\ Len(log) = 2
    /\ log[1].action = "LOW_WATER_ALERT"
    /\ log[2].action = "LOW_WATER_ALERT"

\* C10: every monitoring period hands exactly one MOISTURE_STATUS message to
\* the modem.
C10_OneStatusPerPeriod ==
    [][clock - lastMoistureCheck >= MOISTURE_CHECK_INTERVAL =>
          /\ period'.ran
          /\ Cardinality(MessagesOf(air', "MOISTURE_STATUS")) = 1]_vars

\* a period that cleared the alert, after its status send failed
C10_Witness ==
    /\ period.ran
    /\ period.cleared
    /\ \E i \in OpsOf(trace, "radio", {"MOISTURE_STATUS"}) : ~trace[i].ok
    /\ Cardinality(MessagesOf(air, "MOISTURE_STATUS")) = 1

\* the percentages of the periods in the history
Percents == [i \in 1..Len(history) |-> history[i].percent]

\* C9: with low = 30 % and clear = 40 % the alert is raised at the first period
\* whose percentage is under the low threshold, and the levels 50, 25, 20, 22,
\* 45 give exactly one alert, at 25, and exactly one return to normal, at 45.
C9_AlertAtFirstLowPeriod ==
    /\ \A i \in 1..Len(history) :
          (history[i].percent < STATUS_OK_PERCENT
              /\ \A j \in 1..(i - 1) : history[j].percent >= STATUS_OK_PERCENT)
          => history[i].alerted
    /\ Percents = <<50, 25, 20, 22, 45>> =>
          /\ {i \in 1..5 : history[i].alerted} = {2}
          /\ {i \in 1..5 : history[i].cleared} = {5}

\* what the code does on the levels 50, 25, 20, 22, 45: no alert and no return to normal
ScenarioOutcome ==
    Percents = <<50, 25, 20, 22, 45>> =>
        /\ {i \in 1..5 : history[i].alerted} = {}
        /\ {i \in 1..5 : history[i].cleared} = {}
        /\ log = <<>>

----------------------------------------------------------------------------
(* Properties of the sanitization cycle *)

\* C11: in every sanitization cycle the relay is switched on, stays on for
\* SANITIZE_DURATION_MS (10 s) and is then switched off, whatever the readings
\* of the reservoir before and inside the cycle.
C11_CycleRunsFullDuration ==
    cycle.ran =>
        /\ cycle.offAt - cycle.onAt = SANITIZE_DURATION_MS
        /\ Cardinality(OpsOf(trace, "relay", {"ON"})) = 1
        /\ Cardinality(OpsOf(trace, "relay", {"OFF"})) = 1
        /\ \A i \in OpsOf(trace, "relay", {"ON"}), j \in OpsOf(trace, "relay", {"OFF"}) : i < j
        /\ ~relay

\* a cycle on an empty reservoir: low before the cycle, low inside it, 0 % after it
C11_Witness ==
    /\ cycle.ran
    /\ cycle.low
    /\ cycle.midLow
    /\ cycle.percent = 0
    /\ cycle.offAt - cycle.onAt = SANITIZE_DURATION_MS

\* a journal line carries a "sanitization degraded" detail: a detail that is
\* not a percentage (the details appendLog is called with are percentages)
DegradedDetail(line) == \E i \in 1..Len(line.extra) : line.extra[i] \notin 0..100

\* C12: the journal line of a sanitization cycle carries a "sanitization
\* degraded" detail exactly when the reservoir was read low at the cycle.
C12_DegradedDetailWhenLow ==
    (cycle.ran /\ \E i \in OpsOf(trace, "journal", {"SANITIZE_COMPLETE"}) : trace[i].ok) =>
        /\ log[Len(log)].action = "SANITIZE_COMPLETE"
        /\ (cycle.low \/ cycle.midLow) <=> DegradedDetail(log[Len(log)])

\* C19: a monitoring period that falls due while the relay is on is run, with
\* its MOISTURE_STATUS, between the switching on and the switching off of the
\* relay.
C19_PeriodServicedDuringCycle ==
    (/\ cycle.ran
     /\ lastMoistureCheck + MOISTURE_CHECK_INTERVAL > cycle.onAt
     /\ lastMoistureCheck + MOISTURE_CHECK_INTERVAL < cycle.offAt) =>
        \E i \in OpsOf(trace, "radio", {"MOISTURE_STATUS"}) :
            /\ \E on \in OpsOf(trace, "relay", {"ON"}) : on < i
            /\ \E off \in OpsOf(trace, "relay", {"OFF"}) : i < off

\* C20: in every sanitization cycle the reservoir level is read at least once
\* between the switching on and the switching off of the relay.
C20_SampledDuringCycle ==
    cycle.ran => cycle.samples >= 1

\* what the code does: it reads the level inside the cycle only in a pass of
\* the wait loop that finds millis() on a full second, ten times when the
\* relay was switched on at a multiple of 50 ms and never otherwise
SamplesByAlignment ==
    cycle.ran =>
        cycle.samples = IF cycle.onAt % SANITIZE_WAIT_MS = 0 THEN 10 ELSE 0

----------------------------------------------------------------------------
(* Properties of restarts *)

\* C17: after a power loss at any point, the ledger read back is the ledger
\* before or the ledger after the interrupted mutation, no identity other than
\* the one being scanned is lost or added, and the journal has lost at most
\* its last line.
C17_LedgerSurvivesPowerLoss ==
    [][boots' # boots =>
          /\ inside' \in {boot'.before, boot'.after}
          /\ \A u \in Uids \ {boot'.uid} : InSeq(inside', u) <=> InSeq(inside, u)
          /\ \/ log' = log
             \/ /\ Len(log') = Len(log) + 1
                /\ SubSeq(log', 1, Len(log)) = log]_vars

C22_StartupCarriesMoisture ==
    \A i \in 1..Len(air) :
        air[i].type = "SYSTEM_STARTUP" =>
            /\ "device_id" \in DOMAIN air[i]
            /\ "moisture_level" \in DOMAIN air[i]

----------------------------------------------------------------------------
(* Progress *)

\* C23: from every gate state other than IDLE the controller comes back to
\* IDLE, whatever the echoes, the tags, the storage results and the radio
\* responses.
C23_EventuallyIdle == (currentState # "IDLE") ~> (currentState = "IDLE")

\* the controller is back in IDLE after an entry of AB12 and its cycle
C23_Witness ==
    /\ currentState = "IDLE"
    /\ lastEvent["AB12"] = "ENTER"
    /\ prevEvent["AB12"] = "NONE"
    /\ stateStartTime = 0 - RFID_WAIT_AFTER_PRESENCE_MS
    /\ pending = NoInputs

\* C24: a sanitization cycle switches the pump on no earlier than
\* SANITIZE_DELAY_MS after the steps of the ENTRY it follows were done
C24_CycleAfterEntryDelay ==
    cycle.ran => cycle.onAt - entryTime >= SANITIZE_DELAY_MS

\* C25: the presence poll in IDLE leads to the wait for a tag exactly when the
\* reading is an echo (not the no-echo value) strictly below
\* PRESENCE_DISTANCE_CM
C25_TriggerIffBelowThreshold ==
    lastDistance # NoDistance =>
        ((currentState = "WAITING_FOR_RFID")
            <=> (lastDistance # NO_ECHO_CM /\ lastDistance < PRESENCE_DISTANCE_CM))

\* C27: the ledger changes only in a loop() that resolves a scan, and then by
\* the scanned identity alone: an ENTRY adds its line, an EXIT removes its
\* lines, and every other line stays.
C27_LedgerChangesByScanOnly ==
    [][inside' # inside =>
          /\ scan' # NoScan
          /\ scan'.action = "ENTER" => inside' = Append(inside, scan'.uid)
          /\ scan'.action = "EXIT" => inside' = SeqFilterOut(inside, scan'.uid)]_vars

\* the relay operations of the last loop() (or of setup()), in order
RelayOps == SelectSeq(trace, LAMBDA e : e.op = "relay")

\* C28: the relay is on only in gate state SANITIZING: it is off in every other
\* state and after a restart, it is switched on in state SANITIZING only, and
\* every switch-on is followed by a switch-off in the same call, before the
\* state is left.
C28_RelayOnlyWhileSanitizing ==
    /\ currentState # "SANITIZING" => ~relay
    /\ boot # NoBoot => ~relay
    /\ cycle.ran => cycle.state = "SANITIZING"
    /\ \A i \in 1..Len(RelayOps) :
          RelayOps[i].what = "ON" =>
              /\ cycle.ran
              /\ currentState = "SANITIZING"
              /\ i < Len(RelayOps)
              /\ RelayOps[i + 1].what = "OFF"
    /\ (RelayOps # <<>> /\ RelayOps[Len(RelayOps)].what = "OFF") => ~relay

\* a cycle has just run after a restart: the pump was switched on and off
C28_Witness ==
    /\ boots = 1
    /\ currentState = "SANITIZING"
    /\ cycle.ran
    /\ RelayOps = <<Ev("relay", "ON", TRUE), Ev("relay", "OFF", TRUE)>>
    /\ ~relay

\* the percentage of a reading at the low threshold
LowPercent == GetMoisturePercentage(MOISTURE_LOW_THRESHOLD)

\* C29: a monitoring period that raises the alert reports, in the WATER_ALERT
\* message and in the LOW_WATER_ALERT journal line, a percentage that is not
\* above the low threshold.
C29_AlertReportsLowLevel ==
    /\ \A i \in MessagesOf(air, "WATER_ALERT") : air[i].moisture_level <= LowPercent
    /\ (period.ran /\ period.alerted) => period.percent <= LowPercent
    /\ (period.ran /\ period.alerted
            /\ \E i \in OpsOf(trace, "journal", {"LOW_WATER_ALERT"}) : trace[i].ok) =>
          log[Len(log)].extra[1] <= LowPercent

====
